---- MODULE Spec2Model ----
(***************************************************************************)
(* The BookMyShow watcher (src/main.go).  The repository holds two         *)
(* variants of the same program:                                           *)
(*   - the incremental variant (src/main.go lines 1-279), which keeps a    *)
(*     list of discovered theatres per movie and notifies per new theatre; *)
(*   - the first-availability variant (lines 280-565), which sets the      *)
(*     found flag of a movie the first time its page lists any theatre.    *)
(* A run is one invocation of main by cron: load bms.json, iterate over    *)
(* the movies, save bms.json.  The model follows one or more such          *)
(* processes over a shared state document.                                 *)
(***************************************************************************)
EXTENDS Integers, Sequences, FiniteSets, TLC

\* ---------------------------------------------------------------- bounds
MaxTargets == 2      \* movies in bms.json
MaxListed  == 2      \* theatre elements listed by all rendered pages together
MaxRuns    == 2      \* invocations of main that are followed

\* Texts a theatre name element can render to; the empty text is one.
TheatreNames == {"Theatre X", "Theatre Y"}
Names        == {""} \cup TheatreNames
\* Numbers of show elements inside one theatre element.
ShowCounts   == {1, 5}

VARIABLES
    mode,          \* which variant of the program is installed
    file,          \* bms.json: [ok, list]; ok = FALSE: missing or malformed
    procs,         \* the processes (invocations that may overlap)
    runs,          \* number of invocations started so far
    pc,            \* per process: "idle", "loop", "exited", "faulted"
    moviesList,    \* per running process: the in-memory moviesList
    i,             \* per running process: the loop index (1-based)
    exitCode,      \* per process: -1 while running, else the exit status
    saved,         \* per process: "no", "ok", "failed" (saveMoviesToJSON)
    attempts,      \* per running process: its delivery attempts, in order
    rendered,      \* per running process: targets whose page it navigated to
    loaded,        \* per running process: moviesList as the load returned it
    priorSettled,  \* per process: targets whose flag was set before this run
    nowSettled,    \* targets whose found flag some run has set so far
    sent,          \* <<target, theatre>> -> chat events produced, all runs
    listed,        \* theatre elements the rendered pages have listed so far
    undelivered,   \* <<target, theatre>> pairs whose chat delivery failed
    opened,        \* per process: browsers and pages opened and not closed
    last           \* what the last step did: [proc, kind, target, items]

vars == <<mode, file, procs, runs, pc, moviesList, i, exitCode, saved,
          attempts, rendered, loaded, priorSettled, nowSettled, sent, listed,
          undelivered, opened, last>>

\* ------------------------------------------------------------- helpers
Range(s) == {s[k] : k \in DOMAIN s}

SeqsUpTo(S, n) == UNION {[1..k -> S] : k \in 0..n}

NoDuplicates(s) == \A j, k \in DOMAIN s : s[j] = s[k] => j = k

\* slices.Contains
Contains(s, x) == \E k \in DOMAIN s : s[k] = x

\* ------------------------------------------------------------ the data
\* MovieDetails.  Name stands for the identity fields (name, slug_name,
\* code, city, city_code, date), which no statement of main assigns.  The
\* date has the eight characters YYYYMMDD the README prescribes, so that
\* the slicing of line 174 (430) stays within the string.
\* Field tells what the Theatres field of the struct is: a nil slice
\* ("nil"), a slice that is not nil ("slice"), or no field of the struct at
\* all ("none", the first-availability variant, where Theatres is <<>>).
MovieDetails(name, found, theatres, field) ==
    [Name |-> name, Found |-> found, Theatres |-> theatres, Field |-> field]

\* One object of the array in bms.json.  Field tells how its "theatres"
\* member is written: not at all ("absent"), as null ("null"), or as an
\* array of strings ("list"); Theatres is that array, <<>> without one.
JSONObject(name, found, theatres, field) ==
    [Name |-> name, Found |-> found, Theatres |-> theatres, Field |-> field]

\* One theatre element of a rendered page: the text of its name element
\* and the number of its show elements.
Items == [name : Names, shows : ShowCounts]

\* TheatreDetails
TheatreDetails(name, showCount) == [Name |-> name, ShowCount |-> showCount]

\* The state documents a run can find.  Either every movie is written as
\* the README writes it, with its found flag and no "theatres" member, or
\* (incremental variant) every movie has a "theatres" array, empty but for
\* that of the first movie, which may have one theatre already recorded.
InitTheatres(m) ==
    IF m = "incremental" THEN {<<>>, <<"Theatre X">>} ELSE {}

InitLists(m) ==
    UNION {
        {[k \in 1..n |-> JSONObject(k, fs[k], IF k = 1 THEN t1 ELSE <<>>, "list")] :
            fs \in [1..n -> BOOLEAN], t1 \in InitTheatres(m)}
        \cup
        {[k \in 1..n |-> JSONObject(k, fs[k], <<>>, "absent")] :
            fs \in [1..n -> BOOLEAN]}
        : n \in 0..MaxTargets}

Keys == (1..MaxTargets) \X Names

\* the state before any invocation, with ps the processes cron will start
Start(ps) ==
    /\ mode \in {"incremental", "first"}
    /\ \E ok \in BOOLEAN :
         IF ok THEN \E l \in InitLists(mode) : file = [ok |-> TRUE, list |-> l]
         ELSE file = [ok |-> FALSE, list |-> <<>>]
    /\ procs = ps
    /\ runs = 0
    /\ pc = [p \in procs |-> "idle"]
    /\ moviesList = [p \in procs |-> <<>>]
    /\ i = [p \in procs |-> 1]
    /\ exitCode = [p \in procs |-> -1]
    /\ saved = [p \in procs |-> "no"]
    /\ attempts = [p \in procs |-> <<>>]
    /\ rendered = [p \in procs |-> {}]
    /\ loaded = [p \in procs |-> <<>>]
    /\ priorSettled = [p \in procs |-> {}]
    /\ nowSettled = {t \in DOMAIN file.list : file.list[t].Found}
    /\ sent = [key \in Keys |-> 0]
    /\ listed = 0
    /\ undelivered = {}
    /\ opened = [p \in procs |-> {}]
    /\ last = [proc |-> 0, kind |-> "init", target |-> 0, items |-> <<>>]

\* one invocation at a time, each after the one before has ended
Init == Start({1})

\* two processes: an invocation can start while another is in its loop
InitOverlap == Start({1, 2})

\* ------------------------------------------------------ the state store
\* a decoding that never reads the "found" member
UnmarshalWithoutFound(m, o) ==
    IF m = "incremental"
    THEN MovieDetails(o.Name, FALSE, o.Theatres,
                      IF o.Field = "list" THEN "slice" ELSE "nil")
    ELSE MovieDetails(o.Name, FALSE, <<>>, "none")

\* json.Unmarshal of one object into a MovieDetails of variant m.  A
\* missing or null "theatres" leaves the slice nil, an array (an empty one
\* too) makes a slice that is not nil; the struct of lines 301-309 has no
\* such field and the member is dropped.
Unmarshal(m, o) ==
    IF m = "incremental"
    THEN MovieDetails(o.Name, o.Found, o.Theatres,
                      IF o.Field = "list" THEN "slice" ELSE "nil")
    ELSE MovieDetails(o.Name, o.Found, <<>>, "none")

\* json.MarshalIndent of one MovieDetails.  Line 28 has no omitempty: a nil
\* slice is written as null, any other slice as an array.
Marshal(movie) ==
    JSONObject(movie.Name, movie.Found, movie.Theatres,
               CASE movie.Field = "nil" -> "null"
                 [] movie.Field = "slice" -> "list"
                 [] OTHER -> "absent")

\* a load that drops the error and goes on with whatever was decoded
loadMoviesIgnoringError(f) ==
    [err |-> FALSE, list |-> [k \in DOMAIN f.list |-> Unmarshal(mode, f.list[k])]]

\* loadMoviesFromJSON: os.ReadFile and json.Unmarshal; either can fail.
loadMoviesFromJSON(f) ==
    IF f.ok
    THEN [err |-> FALSE, list |-> [k \in DOMAIN f.list |-> Unmarshal(mode, f.list[k])]]
    ELSE [err |-> TRUE, list |-> <<>>]

\* saveMoviesToJSON with a successful os.WriteFile.
saveMoviesToJSON(list) ==
    [ok |-> TRUE, list |-> [k \in DOMAIN list |-> Marshal(list[k])]]

\* A failed os.WriteFile leaves bms.json as it was (the open failed) or
\* truncated and partly written (the write failed), which no longer parses.
FailedWrite(f) == {f, [ok |-> FALSE, list |-> <<>>]}

\* what every step records about itself
Did(p, kind, t, items) ==
    last' = [proc |-> p, kind |-> kind, target |-> t, items |-> items]

\* The process ends: its memory is gone, and so is what was recorded about
\* the invocation in progress.
Ends(p, status) ==
    /\ exitCode' = [exitCode EXCEPT ![p] = status]
    /\ moviesList' = [moviesList EXCEPT ![p] = <<>>]
    /\ i' = [i EXCEPT ![p] = 1]
    /\ attempts' = [attempts EXCEPT ![p] = <<>>]
    /\ rendered' = [rendered EXCEPT ![p] = {}]
    /\ loaded' = [loaded EXCEPT ![p] = <<>>]

\* main, lines 88-107 (368-388): a new invocation whose load fails.
\* logger.Fatal ends the process with status 1.
LoadFault(p) ==
    /\ pc[p] \in {"idle", "exited", "faulted"}
    /\ runs < MaxRuns
    /\ loadMoviesFromJSON(file).err
    /\ runs' = runs + 1
    /\ pc' = [pc EXCEPT ![p] = "faulted"]
    /\ Ends(p, 1)
    /\ saved' = [saved EXCEPT ![p] = "no"]
    /\ priorSettled' = [priorSettled EXCEPT ![p] = nowSettled]
    /\ opened' = [opened EXCEPT ![p] = {}]
    /\ Did(p, "loadFault", 0, <<>>)
    /\ UNCHANGED <<mode, file, procs, nowSettled, sent, listed, undelivered>>

\* an invocation that waits for the other processes to be out of the loop
LoadExclusive(p) ==
    /\ \A q \in procs : pc[q] # "loop"
    /\ pc[p] \in {"idle", "exited", "faulted"}
    /\ runs < MaxRuns
    /\ ~loadMoviesFromJSON(file).err
    /\ runs' = runs + 1
    /\ pc' = [pc EXCEPT ![p] = "loop"]
    /\ exitCode' = [exitCode EXCEPT ![p] = -1]
    /\ moviesList' = [moviesList EXCEPT ![p] = loadMoviesFromJSON(file).list]
    /\ loaded' = [loaded EXCEPT ![p] = loadMoviesFromJSON(file).list]
    /\ i' = [i EXCEPT ![p] = 1]
    /\ saved' = [saved EXCEPT ![p] = "no"]
    /\ attempts' = [attempts EXCEPT ![p] = <<>>]
    /\ rendered' = [rendered EXCEPT ![p] = {}]
    /\ priorSettled' = [priorSettled EXCEPT ![p] = nowSettled]
    /\ opened' = [opened EXCEPT ![p] = {}]
    /\ Did(p, "load", 0, <<>>)
    /\ UNCHANGED <<mode, file, procs, nowSettled, sent, listed, undelivered>>

\* main, lines 88-109 (368-390): a new invocation whose load succeeds.
Load(p) ==
    /\ pc[p] \in {"idle", "exited", "faulted"}
    /\ runs < MaxRuns
    /\ ~loadMoviesFromJSON(file).err
    /\ runs' = runs + 1
    /\ pc' = [pc EXCEPT ![p] = "loop"]
    /\ exitCode' = [exitCode EXCEPT ![p] = -1]
    /\ moviesList' = [moviesList EXCEPT ![p] = loadMoviesFromJSON(file).list]
    /\ loaded' = [loaded EXCEPT ![p] = loadMoviesFromJSON(file).list]
    /\ i' = [i EXCEPT ![p] = 1]
    /\ saved' = [saved EXCEPT ![p] = "no"]
    /\ attempts' = [attempts EXCEPT ![p] = <<>>]
    /\ rendered' = [rendered EXCEPT ![p] = {}]
    /\ priorSettled' = [priorSettled EXCEPT ![p] = nowSettled]
    /\ opened' = [opened EXCEPT ![p] = {}]
    /\ Did(p, "load", 0, <<>>)
    /\ UNCHANGED <<mode, file, procs, nowSettled, sent, listed, undelivered>>

\* ------------------------------------------------- one loop iteration
InLoop(p) == pc[p] = "loop" /\ i[p] <= Len(moviesList[p])

\* the iteration has passed the found check of lines 110-112 (391-393)
Unsettled(p) == InLoop(p) /\ ~moviesList[p][i[p]].Found

\* `continue`: on to the next index, nothing else touched
Continue(p) ==
    /\ i' = [i EXCEPT ![p] = @ + 1]
    /\ UNCHANGED <<mode, file, procs, runs, pc, moviesList, exitCode, saved,
                   attempts, loaded, priorSettled, nowSettled, sent, listed,
                   undelivered>>

\* logger.Fatal: os.Exit(1); deferred calls do not run, nothing is saved,
\* and what the earlier iterations opened is never closed
Fatal(p) ==
    /\ pc' = [pc EXCEPT ![p] = "exited"]
    /\ Ends(p, 1)
    /\ UNCHANGED <<mode, file, procs, runs, saved, priorSettled, nowSettled,
                   sent, listed, undelivered, opened>>

\* A panic unwinds main: the deferred Close calls run, the deferred guard
\* of lines 89-102 recovers and logs, and main returns (status 0) without
\* reaching line 211.
Recovered(p) ==
    /\ pc' = [pc EXCEPT ![p] = "exited"]
    /\ Ends(p, 0)
    /\ opened' = [opened EXCEPT ![p] = {}]
    /\ UNCHANGED <<mode, file, procs, runs, saved, priorSettled, nowSettled,
                   sent, listed, undelivered>>

\* lines 114-121 (395-402): the iteration has connected a browser and
\* opened a page; their Close calls are deferred to the return of main
Opens(p) ==
    opened' = [opened EXCEPT ![p] = @ \cup {<<"browser", i[p]>>, <<"page", i[p]>>}]

\* lines 110-112 (391-393): a movie already found is passed over
SkipSettled(p) ==
    /\ InLoop(p)
    /\ moviesList[p][i[p]].Found
    /\ Continue(p)
    /\ Did(p, "settled", i[p], <<>>)
    /\ UNCHANGED <<rendered, opened>>

\* lines 114-117 (395-398): browser.Connect returns an error
ConnectFatal(p) ==
    /\ Unsettled(p)
    /\ Fatal(p)
    /\ Did(p, "connectFatal", i[p], <<>>)

\* line 120 (401): stealth.MustPage panics
PagePanic(p) ==
    /\ Unsettled(p)
    /\ Recovered(p)
    /\ Did(p, "pagePanic", i[p], <<>>)

\* line 127 (407): MustNavigate or MustWaitDOMStable panics, for one when
\* the one-minute timeout of line 114 expires
NavigatePanic(p) ==
    /\ Unsettled(p)
    /\ Recovered(p)
    /\ Did(p, "navigatePanic", i[p], <<>>)

\* a missing container that ends main instead of the iteration
ContainerMissingReturns(p) ==
    /\ Unsettled(p)
    /\ Recovered(p)
    /\ Did(p, "noContainer", i[p], <<>>)

\* lines 129-136 (409-416): the theatre container is not found
ContainerMissing(p) ==
    /\ Unsettled(p)
    /\ Continue(p)
    /\ Opens(p)
    /\ rendered' = [rendered EXCEPT ![p] = @ \cup {i[p]}]
    /\ Did(p, "noContainer", i[p], <<>>)

\* lines 138-145 (418-425): the lookup of the theatre elements fails
ElementsError(p) ==
    /\ Unsettled(p)
    /\ Continue(p)
    /\ Opens(p)
    /\ rendered' = [rendered EXCEPT ![p] = @ \cup {i[p]}]
    /\ Did(p, "noElements", i[p], <<>>)

\* lines 150-152: a theatre element without a name element.  The error of
\* Element is dropped, theatreNameDiv is nil, and Text on the nil element
\* dereferences it: a panic, before anything of the movie was changed.
NameElementPanic(p) ==
    /\ mode = "incremental"
    /\ Unsettled(p)
    /\ Recovered(p)
    /\ Did(p, "namePanic", i[p], <<>>)

\* --------------------------------------------- the incremental variant
\* lines 147-158: one TheatreDetails per theatre element, in page order
theatreDetailsOf(items) ==
    [k \in DOMAIN items |-> TheatreDetails(items[k].name, items[k].shows)]

\* the loop body without the membership test of line 166
ReconcileOneNoCheck(acc, theatre) ==
    IF theatre.Name = ""
    THEN acc
    ELSE [Theatres |-> Append(acc.Theatres, theatre.Name),
          newTheatres |-> Append(acc.newTheatres, theatre)]

\* the loop body assigning the new name instead of appending it
ReconcileOneAssigns(acc, theatre) ==
    IF theatre.Name = ""
    THEN acc
    ELSE IF ~Contains(acc.Theatres, theatre.Name)
         THEN [Theatres |-> <<theatre.Name>>,
               newTheatres |-> Append(acc.newTheatres, theatre)]
         ELSE acc

\* the loop body without the empty-name test of line 162
ReconcileOneKeepsNameless(acc, theatre) ==
    IF ~Contains(acc.Theatres, theatre.Name)
    THEN [Theatres |-> Append(acc.Theatres, theatre.Name),
          newTheatres |-> Append(acc.newTheatres, theatre)]
    ELSE acc

\* the loop body testing the name against the new theatres of this page
\* only, not against the list of the movie
ReconcileOneChecksNew(acc, theatre) ==
    IF theatre.Name = ""
    THEN acc
    ELSE IF \A k \in DOMAIN acc.newTheatres :
                acc.newTheatres[k].Name # theatre.Name
         THEN [Theatres |-> Append(acc.Theatres, theatre.Name),
               newTheatres |-> Append(acc.newTheatres, theatre)]
         ELSE acc

\* lines 161-170, the body of the loop for one theatre: acc holds
\* moviesList[i].Theatres and newTheatres as built so far.
ReconcileOne(acc, theatre) ==
    IF theatre.Name = ""
    THEN acc
    ELSE IF ~Contains(acc.Theatres, theatre.Name)
         THEN [Theatres |-> Append(acc.Theatres, theatre.Name),
               newTheatres |-> Append(acc.newTheatres, theatre)]
         ELSE acc

\* lines 160-170: the loop over theatreDetails, from index k on
RECURSIVE Reconcile(_, _, _)
Reconcile(acc, theatreDetails, k) ==
    IF k > Len(theatreDetails)
    THEN acc
    ELSE Reconcile(ReconcileOne(acc, theatreDetails[k]), theatreDetails, k + 1)

\* the notifications sent from the last new theatre back to the first
NotifyNewestFirst(movie, newTheatres, oks) ==
    [k \in DOMAIN newTheatres |->
        LET j == Len(newTheatres) + 1 - k
        IN [kind |-> "chat", movie |-> movie.Name,
            theatre |-> newTheatres[j].Name,
            shows |-> newTheatres[j].ShowCount, ok |-> oks[j]]]

\* lines 172-208: one sendTelegramNotification per new theatre, in order;
\* oks[k] tells whether the k-th delivery succeeded.  A failure is logged
\* and the loop goes on.
NotifyNewTheatres(movie, newTheatres, oks) ==
    [k \in DOMAIN newTheatres |->
        [kind |-> "chat", movie |-> movie.Name, theatre |-> newTheatres[k].Name,
         shows |-> newTheatres[k].ShowCount, ok |-> oks[k]]]

\* --------------------------------------- the first-availability variant
\* one chat message per theatre element instead of one for the movie
NotifyPerTheatreElement(movie, theatreElements, chatOk, callOk) ==
    [k \in DOMAIN theatreElements |->
        [kind |-> "chat", movie |-> movie.Name, theatre |-> "",
         shows |-> 1, ok |-> chatOk]]
    \o << [kind |-> "call", movie |-> movie.Name, theatre |-> "",
           shows |-> 0, ok |-> callOk] >>

\* the call placed only when the chat message went out
NotifyCallAfterChat(movie, theatreElements, chatOk, callOk) ==
    << [kind |-> "chat", movie |-> movie.Name, theatre |-> "",
        shows |-> Len(theatreElements), ok |-> chatOk] >>
    \o (IF chatOk
        THEN << [kind |-> "call", movie |-> movie.Name, theatre |-> "",
                 shows |-> 0, ok |-> callOk] >>
        ELSE << >>)

\* the message counting the theatre elements that have a name
NotifyNamedTheatres(movie, theatreElements, chatOk, callOk) ==
    << [kind |-> "chat", movie |-> movie.Name, theatre |-> "",
        shows |-> Cardinality({k \in DOMAIN theatreElements :
                                  theatreElements[k].name # ""}),
        ok |-> chatOk],
       [kind |-> "call", movie |-> movie.Name, theatre |-> "",
        shows |-> 0, ok |-> callOk] >>

\* lines 427-468: one chat message with the number of theatre elements,
\* then one IFTTT call, each attempted whatever the other returned.
NotifyBookingsStarted(movie, theatreElements, chatOk, callOk) ==
    << [kind |-> "chat", movie |-> movie.Name, theatre |-> "",
        shows |-> Len(theatreElements), ok |-> chatOk],
       [kind |-> "call", movie |-> movie.Name, theatre |-> "",
        shows |-> 0, ok |-> callOk] >>

\* an update that reaches every movie of the list
SetEveryMovie(list, k, movie) ==
    [t \in DOMAIN list |->
        MovieDetails(list[t].Name, movie.Found, movie.Theatres, movie.Field)]

\* lines 167 and 428: the loop writes through moviesList[i], the element
\* of the slice, and so to the movie in hand alone
SetMovie(list, k, movie) == [list EXCEPT ![k] = movie]

\* The theatre elements a rendered page can hold, in page order.
Pages == SeqsUpTo(Items, MaxListed - listed)

\* the chat events of a log for movie t and theatre n
ChatCount(log, t, n) ==
    Cardinality({k \in DOMAIN log :
        log[k].kind = "chat" /\ log[k].movie = t /\ log[k].theatre = n})

Emit(p, events) ==
    /\ attempts' = [attempts EXCEPT ![p] = @ \o events]
    /\ sent' = [key \in Keys |-> sent[key] + ChatCount(events, key[1], key[2])]
    /\ undelivered' = undelivered \cup
           {<<events[k].movie, events[k].theatre>> :
               k \in {j \in DOMAIN events :
                         /\ events[j].kind = "chat"
                         /\ events[j].theatre # ""
                         /\ ~events[j].ok}}

\* lines 129-208 with both lookups succeeding (incremental variant)
ProcessIncremental(p) ==
    /\ mode = "incremental"
    /\ Unsettled(p)
    /\ \E items \in Pages :
         LET movie == moviesList[p][i[p]]
             r == Reconcile([Theatres |-> movie.Theatres, newTheatres |-> <<>>],
                            theatreDetailsOf(items), 1)
         IN /\ moviesList' =
                 [moviesList EXCEPT ![p] = SetMovie(@, i[p],
                     MovieDetails(movie.Name, movie.Found, r.Theatres,
                                  IF Len(r.newTheatres) > 0 THEN "slice"
                                  ELSE movie.Field))]
            /\ \E oks \in [DOMAIN r.newTheatres -> BOOLEAN] :
                 Emit(p, NotifyNewTheatres(movie, r.newTheatres, oks))
            /\ listed' = listed + Len(items)
            /\ Did(p, "ok", i[p], items)
    /\ Opens(p)
    /\ rendered' = [rendered EXCEPT ![p] = @ \cup {i[p]}]
    /\ i' = [i EXCEPT ![p] = @ + 1]
    /\ UNCHANGED <<mode, file, procs, runs, pc, exitCode, saved, loaded,
                   priorSettled, nowSettled>>

\* lines 409-468 with both lookups succeeding (first-availability variant)
ProcessFirst(p) ==
    /\ mode = "first"
    /\ Unsettled(p)
    /\ \E theatreElements \in Pages :
         /\ IF Len(theatreElements) > 0
            THEN /\ moviesList' =
                      [moviesList EXCEPT ![p] = SetMovie(@, i[p],
                          [moviesList[p][i[p]] EXCEPT !.Found = TRUE])]
                 /\ nowSettled' = nowSettled \cup {i[p]}
                 /\ \E chatOk, callOk \in BOOLEAN :
                      Emit(p, NotifyBookingsStarted(moviesList[p][i[p]],
                                                    theatreElements, chatOk, callOk))
            ELSE UNCHANGED <<moviesList, nowSettled, attempts, sent,
                             undelivered>>
         /\ listed' = listed + Len(theatreElements)
         /\ Did(p, "ok", i[p], theatreElements)
    /\ Opens(p)
    /\ rendered' = [rendered EXCEPT ![p] = @ \cup {i[p]}]
    /\ i' = [i EXCEPT ![p] = @ + 1]
    /\ UNCHANGED <<mode, file, procs, runs, pc, exitCode, saved, loaded,
                   priorSettled>>

\* ------------------------------------------------------------ the save
AfterLoop(p) == pc[p] = "loop" /\ i[p] > Len(moviesList[p])

\* lines 211-217 (471-477): the save succeeds; main returns
SaveOk(p) ==
    /\ AfterLoop(p)
    /\ file' = saveMoviesToJSON(moviesList[p])
    /\ saved' = [saved EXCEPT ![p] = "ok"]
    /\ pc' = [pc EXCEPT ![p] = "exited"]
    /\ Ends(p, 0)
    /\ opened' = [opened EXCEPT ![p] = {}]
    /\ Did(p, "saveOk", 0, <<>>)
    /\ UNCHANGED <<mode, procs, runs, priorSettled, nowSettled, sent, listed,
                   undelivered>>

\* lines 211-217 (471-477): the save fails; the error is logged, main returns
SaveFail(p) ==
    /\ AfterLoop(p)
    /\ file' \in FailedWrite(file)
    /\ saved' = [saved EXCEPT ![p] = "failed"]
    /\ pc' = [pc EXCEPT ![p] = "exited"]
    /\ Ends(p, 0)
    /\ opened' = [opened EXCEPT ![p] = {}]
    /\ Did(p, "saveFail", 0, <<>>)
    /\ UNCHANGED <<mode, procs, runs, priorSettled, nowSettled, sent, listed,
                   undelivered>>

Next ==
    \/ \E p \in procs : LoadFault(p)
    \/ \E p \in procs : Load(p)
    \/ \E p \in procs : SkipSettled(p)
    \/ \E p \in procs : ConnectFatal(p)
    \/ \E p \in procs : PagePanic(p)
    \/ \E p \in procs : NavigatePanic(p)
    \/ \E p \in procs : ContainerMissing(p)
    \/ \E p \in procs : ElementsError(p)
    \/ \E p \in procs : NameElementPanic(p)
    \/ \E p \in procs : ProcessIncremental(p)
    \/ \E p \in procs : ProcessFirst(p)
    \/ \E p \in procs : SaveOk(p)
    \/ \E p \in procs : SaveFail(p)

Spec == Init /\ [][Next]_vars

\* the same program started by cron while an earlier invocation still runs
SpecOverlap == InitOverlap /\ [][Next]_vars

\* ================================================================ claims
\* what the last step was about
LastProc   == last.proc
LastTarget == last.target
\* the last step was an iteration that reached the reconciliation
Processed(m) == mode = m /\ last.kind = "ok"

\* the record of target t before this run touched it, and as it is now
Before(p, t) == loaded[p][t]
Now(p, t)    == moviesList[p][t]

\* the delivery attempts of the run of p that are about movie t
EventsOf(p, t) == {k \in DOMAIN attempts[p] : attempts[p][k].movie = t}

\* the show count of the first listed item of that name
FirstShows(items, n) ==
    LET k == CHOOSE a \in DOMAIN items :
                 items[a].name = n /\ \A b \in 1..(a - 1) : items[b].name # n
    IN items[k].shows

\* C1: in incremental mode at most one notification event is ever produced
\* for a (target, theatre) pair, over all runs, whatever ends a run.
C1_AtMostOneEvent ==
    mode = "incremental" => \A key \in Keys : sent[key] <= 1

\* C2: in incremental mode a processed target gets exactly one event for
\* each distinct observed theatre name that was not discovered before, with
\* that theatre's show count, none for a name already discovered, and its
\* discovered list is the previous one followed by exactly the new names.
C2_IncrementalReconcile ==
    Processed("incremental") =>
        LET p == LastProc
            t == LastTarget
            before == Before(p, t).Theatres
            after == Now(p, t).Theatres
            observed == {last.items[k].name : k \in DOMAIN last.items} \ {""}
            new == observed \ Range(before)
        IN /\ \A n \in Names :
                ChatCount(attempts[p], t, n) = IF n \in new THEN 1 ELSE 0
           /\ \A k \in EventsOf(p, t) :
                /\ attempts[p][k].kind = "chat"
                /\ attempts[p][k].shows = FirstShows(last.items, attempts[p][k].theatre)
           /\ Range(after) = Range(before) \cup new
           /\ Len(after) = Len(before) + Cardinality(new)
           /\ SubSeq(after, 1, Len(before)) = before

\* Scenario B: discovered = [X], the page lists (X, 5) and (Y, 1)
C2_Witness ==
    /\ Processed("incremental")
    /\ Before(LastProc, LastTarget).Theatres = <<"Theatre X">>
    /\ last.items = << [name |-> "Theatre X", shows |-> 5],
                       [name |-> "Theatre Y", shows |-> 1] >>

\* C3: a target whose theatre container or item list is not found keeps its
\* record, gets no notification, and the run goes on as after any other
\* iteration: the next target is up, or the save; a run is never left
\* without a save because of it, and a run that gets to the save has
\* visited every target that was not settled.
C3_LookupFailureIsolated ==
    /\ last.kind \in {"noContainer", "noElements"} =>
         LET p == LastProc
             t == LastTarget
         IN /\ pc[p] = "loop"
            /\ i[p] = t + 1
            /\ Now(p, t) = Before(p, t)
            /\ EventsOf(p, t) = {}
            /\ AfterLoop(p) => ENABLED SaveOk(p)
            /\ InLoop(p) => ENABLED (SkipSettled(p) \/ ContainerMissing(p))
    /\ \A p \in procs :
         /\ (pc[p] = "exited" /\ saved[p] = "no" /\ LastProc = p) =>
               last.kind \in {"connectFatal", "pagePanic", "navigatePanic",
                              "namePanic"}
         /\ AfterLoop(p) =>
               \A t \in DOMAIN loaded[p] :
                   ~loaded[p][t].Found => t \in rendered[p]

\* the container of the first of two open targets is missing
C3_Witness ==
    /\ last.kind = "noContainer"
    /\ LastTarget = 1
    /\ Len(moviesList[LastProc]) = 2
    /\ ~moviesList[LastProc][2].Found

\* C4: a failure to acquire the rendered document of a target (connection,
\* page creation, navigation or wait timeout) skips that target only: the
\* loop goes on with the next target.
C4_AcquireFailureSkips ==
    last.kind \in {"connectFatal", "pagePanic", "navigatePanic"} =>
        /\ pc[LastProc] = "loop"
        /\ i[LastProc] = LastTarget + 1

\* C5: a run that has loaded the state document performs the save step
\* before it ends, whatever happened while the targets were processed.
C5_SaveAlwaysReached ==
    \A p \in procs : pc[p] = "exited" => saved[p] # "no"

\* C6: in first-availability mode a target whose found flag was set in an
\* earlier run is neither rendered nor notified about in a later run.
C6_SettleOnce ==
    mode = "first" =>
        \A p \in procs : \A t \in priorSettled[p] :
            /\ t \notin rendered[p]
            /\ EventsOf(p, t) = {}
            /\ ~(LastProc = p /\ LastTarget = t /\ last.kind = "navigatePanic")

\* the theatres of every movie of list a are among those of list b
Covers(b, a) ==
    /\ Len(b) = Len(a)
    /\ \A t \in DOMAIN a : Range(a[t].Theatres) \subseteq Range(b[t].Theatres)

\* C7: the discovered set of a target never shrinks: no step of a run
\* removes a name from it, the document a run saves covers the one that run
\* loaded, and the saved document covers the document it replaces.
C7_DiscoveredMonotone ==
    [][ /\ \A p \in procs :
              (pc[p] = "loop" /\ pc'[p] = "loop") =>
                  /\ Covers(moviesList'[p], moviesList[p])
                  /\ Covers(moviesList'[p], loaded[p])
        /\ \A p \in procs :
              (saved[p] = "no" /\ saved'[p] = "ok") =>
                  /\ Covers(file'.list, loaded[p])
                  /\ file.ok => Covers(file'.list, file.list)
      ]_vars

\* a run has saved a list that holds a name it did not load
C7_Witness ==
    /\ last.kind = "saveOk"
    /\ \E t \in DOMAIN file.list :
         file.list[t].Theatres = <<"Theatre X", "Theatre Y">>

\* C8: in first-availability mode an unsettled target whose page lists at
\* least one theatre becomes settled, with exactly one summary event whose
\* count is the number of theatres listed (and one call trigger).
C8_FirstAvailability ==
    (Processed("first") /\ Len(last.items) > 0) =>
        LET p == LastProc
            t == LastTarget
            chats == {k \in EventsOf(p, t) : attempts[p][k].kind = "chat"}
            calls == {k \in EventsOf(p, t) : attempts[p][k].kind = "call"}
        IN /\ ~Before(p, t).Found
           /\ Now(p, t).Found
           /\ Cardinality(chats) = 1
           /\ Cardinality(calls) = 1
           /\ \A k \in chats : attempts[p][k].shows = Len(last.items)

\* several theatres listed at once
C8_Witness ==
    /\ Processed("first")
    /\ Len(last.items) = MaxListed
    /\ moviesList[LastProc][LastTarget].Found

\* the observations of a page: in the incremental variant the items with a
\* name (line 162), in the first-availability variant the items (line 427)
Observations(items) ==
    IF mode = "incremental"
    THEN {k \in DOMAIN items : items[k].name # ""}
    ELSE DOMAIN items

\* C9: in either mode a target whose observation list is empty keeps its
\* discovered list and its found flag, and no event is emitted for it.
C9_EmptyObservation ==
    (last.kind = "ok" /\ Observations(last.items) = {}) =>
        /\ Now(LastProc, LastTarget) = Before(LastProc, LastTarget)
        /\ EventsOf(LastProc, LastTarget) = {}

\* a page of two nameless items in the incremental variant
C9_Witness ==
    /\ Processed("incremental")
    /\ Len(last.items) = 2
    /\ Observations(last.items) = {}
    /\ Before(LastProc, LastTarget).Theatres = <<"Theatre X">>

\* C10: with the state document missing or malformed the run is Faulted:
\* no target is processed, nothing is rendered, no notification is
\* attempted, the document is not written, and the exit status is not zero;
\* and no run gets into the loop without a document that loaded.
C10_LoadFault ==
    /\ \A p \in procs :
         pc[p] = "faulted" =>
             /\ exitCode[p] = 1
             /\ i[p] = 1
             /\ moviesList[p] = <<>>
             /\ rendered[p] = {}
             /\ attempts[p] = <<>>
             /\ saved[p] = "no"
    /\ last.kind = "loadFault" => ~file.ok /\ pc[LastProc] = "faulted"
    /\ last.kind = "load" => file.ok /\ pc[LastProc] = "loop"

\* a run that notified, whose failed save left the document unreadable,
\* is followed by a run that faults
C10_Witness ==
    /\ last.kind = "loadFault"
    /\ runs = 2
    /\ \E key \in Keys : sent[key] > 0

\* C11: in incremental mode a failed chat delivery for a new theatre does
\* not undo the membership update: the theatre is in the discovered list
\* after the step, the other new theatres of the page are attempted all the
\* same, the run is still in its loop with the next target (or the save)
\* up, and no later step of this or a later run produces another event for
\* that (target, theatre) pair.
C11_FailedDeliveryKept ==
    [][ /\ (mode = "incremental" /\ last'.kind = "ok") =>
              LET p == last'.proc
                  t == last'.target
                  new == {k \in DOMAIN attempts'[p] : k > Len(attempts[p])}
              IN (\E k \in new : ~attempts'[p][k].ok) =>
                    /\ pc'[p] = "loop"
                    /\ i'[p] = t + 1
                    /\ \A k \in new :
                         Contains(moviesList'[p][t].Theatres,
                                  attempts'[p][k].theatre)
                    /\ \A n \in Range(moviesList'[p][t].Theatres)
                                 \ Range(moviesList[p][t].Theatres) :
                         \E k \in new : attempts'[p][k].theatre = n
        /\ mode = "incremental" =>
              \A key \in undelivered : sent'[key] = sent[key]
      ]_vars

\* C12: in first-availability mode every summary event has both channels
\* attempted exactly once, the chat message first and the call after it,
\* whatever either returned; and after the attempts the run is in its loop
\* with the flag set in memory and the next target, or the save, up.
C12_BothChannelsAttempted ==
    mode = "first" =>
        /\ \A p \in procs : \A t \in 1..MaxTargets :
             LET chats == {k \in EventsOf(p, t) : attempts[p][k].kind = "chat"}
                 calls == {k \in EventsOf(p, t) : attempts[p][k].kind = "call"}
             IN /\ Cardinality(chats) = Cardinality(calls)
                /\ Cardinality(chats) <= 1
                /\ \A k \in chats : k + 1 \in calls
        /\ (last.kind = "ok" /\ Len(last.items) > 0) =>
             /\ pc[LastProc] = "loop"
             /\ i[LastProc] = LastTarget + 1
             /\ Now(LastProc, LastTarget).Found
             /\ EventsOf(LastProc, LastTarget) # {}
             /\ AfterLoop(LastProc) => ENABLED SaveOk(LastProc)

\* both deliveries of a summary event failed, and the list is at its end
C12_Witness ==
    /\ Processed("first")
    /\ AfterLoop(LastProc)
    /\ \E k \in EventsOf(LastProc, LastTarget) :
         /\ attempts[LastProc][k].kind = "chat"
         /\ ~attempts[LastProc][k].ok
         /\ attempts[LastProc][k + 1].kind = "call"
         /\ ~attempts[LastProc][k + 1].ok

\* a step in which process p saves a list that it has not changed since
\* it loaded it
SavesUnchanged(p) ==
    /\ saved[p] = "no"
    /\ saved'[p] = "ok"
    /\ moviesList[p] = loaded[p]

\* C13 as stated: a run that loads the state document and saves it without
\* having changed anything writes a document with the same fields present
\* and the same values for every target.
C13_RoundTripIdentical ==
    [][ \A p \in procs : SavesUnchanged(p) => file' = file ]_vars

\* C13, amended: such a run writes a document with the same targets in the
\* same order, each with its name, its found flag and its theatres as they
\* were, and the document loads to the same list; the "theatres" member is
\* written as it was, except that the incremental variant writes null
\* where the member was missing.
C13_RoundTripValues ==
    [][ \A p \in procs :
          SavesUnchanged(p) =>
            /\ file'.ok
            /\ Len(file'.list) = Len(file.list)
            /\ \A t \in DOMAIN file.list :
                 /\ file'.list[t].Name = file.list[t].Name
                 /\ file'.list[t].Found = file.list[t].Found
                 /\ file'.list[t].Theatres = file.list[t].Theatres
                 /\ file'.list[t].Field =
                      IF mode = "incremental" /\ file.list[t].Field = "absent"
                      THEN "null"
                      ELSE file.list[t].Field
            /\ loadMoviesFromJSON(file').list = loadMoviesFromJSON(file).list
      ]_vars

\* the first run of the incremental variant over a document of two
\* movies without a "theatres" member, one of them found, has saved it
C13_Witness ==
    /\ mode = "incremental"
    /\ last.kind = "saveOk"
    /\ runs = 1
    /\ Len(file.list) = 2
    /\ file.list[1].Found
    /\ \A t \in DOMAIN file.list : file.list[t].Field = "null"

\* what no step of the loop of p does: change the length or the order of
\* the list, change a movie other than the one in hand, or change the movie
\* in hand when it is passed over (found) or a lookup fails
FrameOfIteration(p) ==
    (pc[p] = "loop" /\ pc'[p] = "loop") =>
        /\ Len(moviesList'[p]) = Len(moviesList[p])
        /\ \A t \in DOMAIN moviesList[p] :
             /\ moviesList'[p][t].Name = moviesList[p][t].Name
             /\ t # i[p] => moviesList'[p][t] = moviesList[p][t]
        /\ last'.kind \in {"settled", "noContainer", "noElements"} =>
             moviesList'[p] = moviesList[p]

\* C14: the state a run persists differs from the state it loaded only in
\* targets it processed: a target that was passed over (found) or whose
\* lookups failed, and any other whose record the run did not change, is
\* written back so that it loads with every field of its record as it was
\* loaded; the list keeps its length and order; and an iteration changes
\* no record but that of its own target.  (How a missing "theatres" member
\* is written is the matter of C13.)
C14_OnlyProcessedChange ==
    [][ \A p \in procs :
          /\ FrameOfIteration(p)
          /\ (saved[p] = "no" /\ saved'[p] = "ok") =>
               /\ Len(file'.list) = Len(file.list)
               /\ \A t \in DOMAIN file.list :
                    /\ file'.list[t].Name = file.list[t].Name
                    /\ moviesList[p][t] = loaded[p][t] =>
                         /\ file'.list[t].Found = file.list[t].Found
                         /\ file'.list[t].Theatres = file.list[t].Theatres
                         /\ Unmarshal(mode, file'.list[t]) = loaded[p][t]
      ]_vars

\* a run has saved two movies: the first, found, as it was; the second
\* with a theatre more
C14_Witness ==
    /\ last.kind = "saveOk"
    /\ Len(file.list) = 2
    /\ file.list[1] = JSONObject(1, TRUE, <<"Theatre X">>, "list")
    /\ file.list[2].Theatres = <<"Theatre X", "Theatre Y">>

\* a name with its leading and trailing white space cut, for the texts a
\* name element renders to here, of which none has any but the one blank
TrimSpace(name) == IF name = " " THEN "" ELSE name

\* C15: in incremental mode a listed item whose name is empty after
\* trimming, or that has no name element at all, is discarded: its name is
\* not added to the discovered list, no event is produced for it, and the
\* other items of the page are reconciled all the same, so that the
\* iteration ends with the loop going on.
C15_NamelessDiscarded ==
    mode = "incremental" =>
        /\ last.kind = "ok" =>
             LET p == LastProc
                 t == LastTarget
                 nameless == {last.items[k].name : k \in
                                 {j \in DOMAIN last.items :
                                     TrimSpace(last.items[j].name) = ""}}
             IN /\ \A n \in nameless :
                     /\ ~Contains(Now(p, t).Theatres, n)
                     /\ ChatCount(attempts[p], t, n) = 0
                /\ \A k \in DOMAIN last.items :
                     TrimSpace(last.items[k].name) # "" =>
                         Contains(Now(p, t).Theatres, last.items[k].name)
        /\ last.kind = "namePanic" =>
             /\ pc[LastProc] = "loop"
             /\ i[LastProc] = LastTarget + 1

\* the listed items that have a name after trimming
Named(items) == {k \in DOMAIN items : TrimSpace(items[k].name) # ""}

\* C16 as stated: in first-availability mode the items without a name do
\* not count: the summary event carries the number of named items, and a
\* page whose items are all nameless leaves the target as it was, without
\* an event.
C16_NamelessNotCounted ==
    Processed("first") =>
        LET p == LastProc
            t == LastTarget
        IN IF Named(last.items) = {}
           THEN /\ Now(p, t) = Before(p, t)
                /\ EventsOf(p, t) = {}
           ELSE \A k \in EventsOf(p, t) :
                    attempts[p][k].kind = "chat" =>
                        attempts[p][k].shows = Cardinality(Named(last.items))

\* C16, amended: in first-availability mode the names are not looked at:
\* the summary event carries the number of theatre elements of the page,
\* named or not, and any page with at least one theatre element sets the
\* found flag and produces the event; only a page without any theatre
\* element leaves the target as it was, without an event.
C16_ElementsCounted ==
    Processed("first") =>
        LET p == LastProc
            t == LastTarget
        IN /\ Now(p, t).Found = (Len(last.items) > 0)
           /\ (EventsOf(p, t) # {}) = (Len(last.items) > 0)
           /\ Len(last.items) = 0 => Now(p, t) = Before(p, t)
           /\ \A k \in EventsOf(p, t) :
                attempts[p][k].kind = "chat" =>
                    attempts[p][k].shows = Len(last.items)

\* a page of two theatre elements without a name has set the found flag
C16_Witness ==
    /\ Processed("first")
    /\ Len(last.items) = 2
    /\ Named(last.items) = {}
    /\ Now(LastProc, LastTarget).Found
    /\ EventsOf(LastProc, LastTarget) # {}

\* the place of the first listed item of name n
FirstIndex(items, n) ==
    CHOOSE a \in DOMAIN items :
        items[a].name = n /\ \A b \in 1..(a - 1) : items[b].name # n

\* C17: within a run the events follow the processing order: an event of
\* an earlier target of the list is never after one of a later target, and
\* the events of one target follow the order in which its new theatres
\* were listed on the page.
C17_ProcessingOrder ==
    /\ \A p \in procs : \A j, k \in DOMAIN attempts[p] :
         j < k => attempts[p][j].movie <= attempts[p][k].movie
    /\ Processed("incremental") =>
         LET p == LastProc
             t == LastTarget
         IN \A j, k \in EventsOf(p, t) :
                j < k => FirstIndex(last.items, attempts[p][j].theatre)
                           < FirstIndex(last.items, attempts[p][k].theatre)

\* a page lists Theatre Y before Theatre X, both new: the event of
\* Theatre Y comes first
C17_Witness ==
    /\ Processed("incremental")
    /\ Len(last.items) = 2
    /\ last.items[1].name = "Theatre Y"
    /\ last.items[2].name = "Theatre X"
    /\ Len(attempts[LastProc]) = 2
    /\ attempts[LastProc][1].theatre = "Theatre Y"
    /\ attempts[LastProc][2].theatre = "Theatre X"

\* C18: nothing keeps two runs apart.  While a run is in its loop another
\* process can start and load the same document; and a save writes the
\* list of the saving run whatever the document holds by then.
C18_NoMutualExclusion ==
    /\ \A p, q \in procs :
         (p # q /\ pc[p] = "loop" /\ pc[q] # "loop" /\ runs < MaxRuns) =>
             IF file.ok THEN ENABLED Load(q) ELSE ENABLED LoadFault(q)
    /\ \A p \in procs : AfterLoop(p) => ENABLED SaveOk(p)

\* two runs loaded the same document; one added Theatre X to the first
\* movie and saved, the other added Theatre Y and saved after it: the
\* document has Theatre Y only, though an event went out for each
C18_Witness ==
    /\ mode = "incremental"
    /\ saved[1] = "ok"
    /\ saved[2] = "ok"
    /\ last.kind = "saveOk"
    /\ sent[<<1, "Theatre X">>] = 1
    /\ sent[<<1, "Theatre Y">>] = 1
    /\ file.list[1].Theatres = <<"Theatre Y">>

\* C19: the discovered list of a movie is a set: with no name twice in the
\* document the first run loads, no list in memory and no list of the
\* document ever holds a name twice, and a name that a page lists more
\* than once is added once and notified once.
C19_SetSemantics ==
    /\ file.ok => \A t \in DOMAIN file.list : NoDuplicates(file.list[t].Theatres)
    /\ \A p \in procs : \A t \in DOMAIN moviesList[p] :
         NoDuplicates(moviesList[p][t].Theatres)
    /\ Processed("incremental") =>
         \A a, b \in DOMAIN last.items :
             (a < b /\ last.items[a].name = last.items[b].name) =>
                 LET n == last.items[a].name
                     p == LastProc
                     t == LastTarget
                 IN /\ ChatCount(attempts[p], t, n) <= 1
                    /\ Cardinality({k \in DOMAIN Now(p, t).Theatres :
                                       Now(p, t).Theatres[k] = n})
                         = IF n = "" THEN 0 ELSE 1

\* a page lists Theatre Y twice: it is added once and notified once
C19_Witness ==
    /\ Processed("incremental")
    /\ Len(last.items) = 2
    /\ last.items[1].name = "Theatre Y"
    /\ last.items[2].name = "Theatre Y"
    /\ Before(LastProc, LastTarget).Theatres = <<"Theatre X">>
    /\ Now(LastProc, LastTarget).Theatres = <<"Theatre X", "Theatre Y">>
    /\ ChatCount(attempts[LastProc], LastTarget, "Theatre Y") = 1

\* C20: every browser connection and page that a run opened for a target
\* is closed by the time the process has ended, whichever way it ended.
C20_AllClosedAtExit ==
    \A p \in procs : pc[p] \in {"exited", "faulted"} => opened[p] = {}

====
